---- MODULE Spec2Model ----
(***************************************************************************)
(* Race-timing application (src/app.py): the participant store             *)
(* (athletes.csv), the record store (timing_records.csv), the session      *)
(* state of one browser session, and the handlers that read and write      *)
(* them.                                                                   *)
(*                                                                         *)
(* The specifications share the variables:                                 *)
(*   Spec         one session running the handlers of the login, the       *)
(*                registration, the check-in, the record editor and the    *)
(*                ranking, one after another;                              *)
(*   SpecConc     two staff sessions whose check-in handlers interleave at *)
(*                the file reads and writes;                               *)
(*   SpecCalc     calculate_net_time and display_results_ranking applied   *)
(*                to every record table within the bounds;                 *)
(*   SpecArchive  registrations, check-ins and archive-and-reset;          *)
(*   SpecAthletes registrations and the participant editor;                *)
(*   SpecUsers    the user management;                                     *)
(*   SpecToken    the token codec and the issuance session;                *)
(*   SpecFormat   format_time.                                             *)
(***************************************************************************)
EXTENDS Integers, Sequences, FiniteSets, TLC

VARIABLES
    athletes,           \* athletes.csv: sequence of participant rows
    records,            \* timing_records.csv: sequence of event rows
    logged_in,          \* st.session_state.logged_in
    username,           \* st.session_state.username
    user_role,          \* st.session_state.user_role
    athlete_logged_in,  \* st.session_state.athlete_logged_in
    now,                \* the wall clock read by datetime.now()
    msg,                \* what the last handler displayed
    first,              \* history: the success message that the current
                        \* check-in submission repeats, or NoMsg
    scan,               \* SpecConc: each session's check-in handler in flight
    config,             \* config.json: the 'users' object of the file
    archives,           \* the ARCHIVE_*.csv files: file name |-> rows
    qr,                 \* the token issuance session of a station
    seconds             \* SpecFormat: the duration handed to format_time

vars == <<athletes, records, logged_in, username, user_role, athlete_logged_in,
          now, msg, first, scan, config, archives, qr, seconds>>

\* The state that the handlers of the timing pages leave alone.
rest == <<config, archives, qr, seconds>>

-----------------------------------------------------------------------------
(* Bounds *)

\* The clock of Spec and SpecConc runs from 0 to MaxClock.
MaxClock == 1
\* The record store of Spec holds at most MaxRows rows.
MaxRows == 2
\* SpecCalc: record tables of at most MaxCalcRows rows, timestamps 0..MaxCalcTime.
MaxCalcRows == 5
MaxCalcTime == 2

-----------------------------------------------------------------------------
(* Values *)

\* pd.NaT: an empty timestamp cell.
NaT == -1
\* A timestamp cell whose text pd.to_datetime cannot parse.
BadTime == -2
\* None in segment1_sec / segment2_sec.
None == -3
\* The first athlete_id that registration assigns.
FirstId == 1001

NoMsg == [kind |-> "none"]

\* The checkpoint select box, after .split(' ')[0].upper().
CheckpointTypes == {"START", "MID", "FINISH"}

\* The people who may register: name (the account) and phone (the password).
Names == {"zhang", "li"}
Phones == {"p1", "p2"}

\* DEFAULT_CONFIG['users'].
Users ==
    [u \in {"admin", "leader01", "referee01"} |->
        CASE u = "admin" -> [password |-> "admin_password_123", role |-> "SuperAdmin"]
          [] u = "leader01" -> [password |-> "leader_pass", role |-> "Leader"]
          [] u = "referee01" -> [password |-> "referee_pass", role |-> "Referee"]]

\* load_config(): the users of DEFAULT_CONFIG overlaid with the users of
\* config.json.
load_config(file_users) ==
    [u \in DOMAIN Users \cup DOMAIN file_users |->
        IF u \in DOMAIN file_users THEN file_users[u] ELSE Users[u]]

\* The issuance session before any token was issued.
Empty == [state |-> "Empty"]

\* A duration that is None.
NoSeconds == [kind |-> "None"]

-----------------------------------------------------------------------------
(* Helpers *)

Range(s) == {s[i] : i \in DOMAIN s}

Max(S) == CHOOSE x \in S : \A y \in S : y <= x
Min(S) == CHOOSE x \in S : \A y \in S : x <= y

\* check_permission(required_roles)
check_permission(required_roles) ==
    logged_in /\ user_role \in required_roles

\* main_app: the navigation list of the session.
Pages ==
    IF athlete_logged_in THEN {"athlete_welcome"}
    ELSE IF logged_in THEN
        {"registration"}
        \cup (IF user_role \in {"SuperAdmin", "Referee"} THEN {"timing"} ELSE {})
        \cup (IF user_role \in {"SuperAdmin", "Leader"} THEN {"ranking"} ELSE {})
        \cup (IF user_role \in {"SuperAdmin", "Referee"} THEN {"data"} ELSE {})
        \cup (IF user_role = "SuperAdmin" THEN {"archive"} ELSE {})
    ELSE {"registration", "athlete_login", "login"}

\* VerifiedAthlete with the password comparison left out.
VerifiedAthlete_UsernameOnly(df_athletes, u, pw) ==
    SelectSeq(df_athletes, LAMBDA r : r.username = u)

\* display_timing_scanner step 1: the rows whose username and password match.
VerifiedAthlete(df_athletes, u, pw) ==
    SelectSeq(df_athletes, LAMBDA r : r.username = u /\ r.password = pw)

\* ExistingRecords where the stored athlete_id never equals the one looked
\* up (the column read as numbers, the key a string).
ExistingRecords_TypeMismatch(df_records, athlete_id, checkpoint_type) ==
    SelectSeq(df_records, LAMBDA r : FALSE /\ r.checkpoint_type = checkpoint_type)

\* display_timing_scanner step 3: the rows already recorded for the pair.
ExistingRecords(df_records, athlete_id, checkpoint_type) ==
    SelectSeq(df_records, LAMBDA r : r.athlete_id = athlete_id
                                     /\ r.checkpoint_type = checkpoint_type)

\* display_timing_scanner step 4: the new row.
NewRecord(athlete_id, checkpoint_type, current_time) ==
    [athlete_id |-> athlete_id, checkpoint_type |-> checkpoint_type,
     timestamp |-> current_time]

-----------------------------------------------------------------------------
(* calculate_net_time *)

\* pd.to_datetime(..., errors='coerce'): unparseable text becomes NaT.
Coerce(ts) == IF ts = BadTime THEN NaT ELSE ts

\* dropna(subset=['timestamp']) after the coercion.
ValidRecords(df_records) ==
    SelectSeq(df_records, LAMBDA r : Coerce(r.timestamp) # NaT)

\* PivotCell with max() in place of min().
PivotCell_Max(valid, athlete_id, checkpoint_type) ==
    LET S == {r.timestamp : r \in {x \in Range(valid) :
                  x.athlete_id = athlete_id /\ x.checkpoint_type = checkpoint_type}}
    IN IF S = {} THEN NaT ELSE Max(S)

\* groupby(['athlete_id', 'checkpoint_type'])['timestamp'].min(), pivoted:
\* the cell of the pivot table, NaT where the pair has no row.
PivotCell(valid, athlete_id, checkpoint_type) ==
    LET S == {r.timestamp : r \in {x \in Range(valid) :
                  x.athlete_id = athlete_id /\ x.checkpoint_type = checkpoint_type}}
    IN IF S = {} THEN NaT ELSE Min(S)

\* The columns of the pivot table: the checkpoint types that occur.
PivotColumns(valid) == {r.checkpoint_type : r \in Range(valid)}

\* The index of the pivot table: the athlete ids that occur.
PivotIndex(valid) == {r.athlete_id : r \in Range(valid)}

\* QualifiesRow with FINISH >= START in place of FINISH > START.
QualifiesRow_NotStrict(start, finish) ==
    start # NaT /\ finish # NaT /\ finish >= start

\* dropna(subset=['START', 'FINISH']) and FINISH > START.
QualifiesRow(start, finish) ==
    start # NaT /\ finish # NaT /\ finish > start

\* Qualifies with dropna(subset=['START']) only.
Qualifies_StartOnly(valid, id) ==
    LET start == PivotCell(valid, id, "START")
        finish == PivotCell(valid, id, "FINISH")
    IN start # NaT /\ (finish = NaT \/ finish > start)

\* The rows of the pivot table that df_results keeps.
Qualifies(valid, id) ==
    QualifiesRow(PivotCell(valid, id, "START"), PivotCell(valid, id, "FINISH"))

\* ValidMid with MID >= START in place of MID > START.
ValidMid_NotStrict(start, mid, finish) ==
    mid # NaT /\ mid >= start /\ mid < finish

\* valid_mid: MID present and strictly between START and FINISH.
ValidMid(start, mid, finish) ==
    mid # NaT /\ mid > start /\ mid < finish

\* One row of df_results.
ResultRow(valid, id) ==
    LET start == PivotCell(valid, id, "START")
        mid == PivotCell(valid, id, "MID")
        finish == PivotCell(valid, id, "FINISH")
    IN [athlete_id |-> id, START |-> start, MID |-> mid, FINISH |-> finish,
        total_time_sec |-> finish - start,
        segment1_sec |-> IF ValidMid(start, mid, finish) THEN mid - start ELSE None,
        segment2_sec |-> IF ValidMid(start, mid, finish) THEN finish - mid ELSE None]

\* The pivot table is indexed by athlete_id in ascending order.
RECURSIVE SortedSeq(_)
SortedSeq(S) ==
    IF S = {} THEN <<>> ELSE <<Min(S)>> \o SortedSeq(S \ {Min(S)})

\* calculate_net_time(df_records): error is TRUE where pandas raises KeyError
\* (the pivot table has no START, FINISH or MID column).
calculate_net_time(df_records) ==
    IF df_records = <<>> THEN [error |-> FALSE, rows |-> <<>>]
    ELSE LET valid == ValidRecords(df_records)
             ids == SortedSeq({id \in PivotIndex(valid) : Qualifies(valid, id)})
         IN IF ~({"START", "FINISH", "MID"} \subseteq PivotColumns(valid))
            THEN [error |-> TRUE, rows |-> <<>>]
            ELSE [error |-> FALSE,
                  rows |-> [i \in DOMAIN ids |-> ResultRow(valid, ids[i])]]

-----------------------------------------------------------------------------
(* display_results_ranking *)

RECURSIVE Flatten(_)
Flatten(ss) == IF ss = <<>> THEN <<>> ELSE Head(ss) \o Flatten(Tail(ss))

\* df_calculated.merge(df_athletes, on='athlete_id', how='left'): one row per
\* matching participant row, one row without a name where none matches.
MergeLeft(df_calculated, df_athletes) ==
    Flatten([i \in DOMAIN df_calculated |->
        LET row == df_calculated[i]
            matches == SelectSeq(df_athletes,
                                 LAMBDA a : a.athlete_id = row.athlete_id)
        IN IF matches = <<>>
           THEN <<[result |-> row, name |-> "NaN"]>>
           ELSE [j \in DOMAIN matches |->
                    [result |-> row, name |-> matches[j].username]]])

\* The orders in which n rows can be arranged.
RowOrders(n) ==
    {p \in [1..n -> 1..n] : \A i, j \in 1..n : p[i] = p[j] => i = j}

\* IsSortedAscending with ascending=False.
IsSortedDescending(df) ==
    \A i, j \in DOMAIN df :
        i < j => df[i].result.total_time_sec >= df[j].result.total_time_sec

\* sort_values(by='total_time_sec', ascending=True): df is in ascending order
\* of total time (the order of equal totals is left to the sort).
IsSortedAscending(df) ==
    \A i, j \in DOMAIN df :
        i < j => df[i].result.total_time_sec <= df[j].result.total_time_sec

\* df_final['rank'] = df_final.index + 1
WithRank(df) ==
    [i \in DOMAIN df |-> [rank |-> i, name |-> df[i].name,
                           athlete_id |-> df[i].result.athlete_id,
                           total_time_sec |-> df[i].result.total_time_sec,
                           segment1_sec |-> df[i].result.segment1_sec,
                           segment2_sec |-> df[i].result.segment2_sec]]

-----------------------------------------------------------------------------
(* Spec: the handlers of one session, one after another *)

\* config.json holds DEFAULT_CONFIG, no archive exists, no token was issued.
InitRest ==
    /\ config = Users
    /\ archives = <<>>
    /\ qr = Empty
    /\ seconds = NoSeconds

Init ==
    /\ athletes = <<>>
    /\ records = <<>>
    /\ logged_in = FALSE
    /\ username = "None"
    /\ user_role = "None"
    /\ athlete_logged_in = FALSE
    /\ now = 0
    /\ msg = NoMsg
    /\ first = NoMsg
    /\ scan = <<>>
    /\ InitRest

session == <<logged_in, username, user_role, athlete_logged_in>>

\* Time passes.
Tick ==
    /\ now < MaxClock
    /\ now' = now + 1
    /\ UNCHANGED <<athletes, records, session, msg, first, scan, rest>>

\* set_login_success, called from the login form of display_login_page.
Login(login_username_input, password) ==
    /\ "login" \in Pages
    /\ LET users == load_config(config)
       IN IF /\ login_username_input \in DOMAIN users
             /\ users[login_username_input].password = password
          THEN /\ logged_in' = TRUE
               /\ username' = login_username_input
               /\ user_role' = users[login_username_input].role
               /\ msg' = [kind |-> "login_ok"]
          ELSE /\ logged_in' = FALSE
               /\ username' = username
               /\ user_role' = "None"
               /\ msg' = [kind |-> "login_failed"]
    /\ first' = NoMsg
    /\ UNCHANGED <<athletes, records, athlete_logged_in, now, scan, rest>>

\* set_logout, the button of display_logout_button.
Logout ==
    /\ ~athlete_logged_in /\ logged_in
    /\ logged_in' = FALSE
    /\ username' = "None"
    /\ user_role' = "None"
    /\ msg' = NoMsg
    /\ first' = NoMsg
    /\ UNCHANGED <<athletes, records, athlete_logged_in, now, scan, rest>>

\* set_athlete_login_success, called from display_athlete_login_page.
AthleteLogin(u, pw) ==
    /\ "athlete_login" \in Pages
    /\ IF VerifiedAthlete(athletes, u, pw) # <<>>
       THEN athlete_logged_in' = TRUE /\ msg' = [kind |-> "login_ok"]
       ELSE athlete_logged_in' = FALSE /\ msg' = [kind |-> "login_failed"]
    /\ first' = NoMsg
    /\ UNCHANGED <<athletes, records, logged_in, username, user_role, now, scan, rest>>

\* set_athlete_logout, the button of display_athlete_logout_button.
AthleteLogout ==
    /\ athlete_logged_in
    /\ athlete_logged_in' = FALSE
    /\ msg' = NoMsg
    /\ first' = NoMsg
    /\ UNCHANGED <<athletes, records, logged_in, username, user_role, now, scan, rest>>

\* An athlete_id is a text of the CSV file.  A number below Two64 stands
\* for its decimal text, Two64 + k for the decimal text of 2^64 + k,
\* 0 - n for the text of n with a blank before it, NonDigitId for a text
\* with a letter in it and EmptyId for the empty text.
Two64 == 1000000
NonDigitId == -4
EmptyId == -5

\* pd.to_numeric(df_athletes['athlete_id'], errors='coerce'): a column
\* whose numbers fit 64 bits is read exactly; a number beyond 2^64 - 1 is
\* read as a float, and the floats from 2^64 on are 4096 apart.
to_numeric(athlete_id) ==
    IF athlete_id < Two64 THEN athlete_id
    ELSE Two64 + ((athlete_id - Two64 + 2047) \div 4096) * 4096

\* The registration form accepts at most MaxAthletes rows and assigns the
\* ids up to FirstId + MaxNewIds - 1.
MaxAthletes == 2
MaxNewIds == 3

\* The id that registration assigns: 1001 in an empty table, else
\* int(numeric_ids.max()) + 1.
NewId(df_athletes) ==
    IF df_athletes = <<>> THEN FirstId
    ELSE Max({to_numeric(r.athlete_id) : r \in Range(df_athletes)}) + 1

\* display_registration_form, the form submitted with name and phone.
\* name is stored as the username and phone as the password.
Register(name, phone) ==
    /\ "registration" \in Pages
    /\ Len(athletes) < MaxAthletes
    /\ NewId(athletes) < FirstId + MaxNewIds \/ NewId(athletes) >= Two64
    /\ IF logged_in /\ ~check_permission({"SuperAdmin", "Referee"})
       THEN msg' = [kind |-> "no_permission"] /\ UNCHANGED athletes
       ELSE IF name = "" \/ phone = ""
       THEN msg' = [kind |-> "incomplete"] /\ UNCHANGED athletes
       ELSE IF \E r \in Range(athletes) : r.password = phone
       THEN msg' = [kind |-> "phone_registered"] /\ UNCHANGED athletes
       ELSE IF \E r \in Range(athletes) : r.username = name
       THEN msg' = [kind |-> "name_registered"] /\ UNCHANGED athletes
       ELSE /\ athletes' = Append(athletes,
                    [athlete_id |-> NewId(athletes), username |-> name,
                     password |-> phone])
            /\ msg' = [kind |-> "registered", athlete_id |-> NewId(athletes)]
    /\ first' = NoMsg
    /\ UNCHANGED <<records, session, now, scan, rest>>

\* The success message of display_timing_scanner.
SuccessMsg(name, athlete_id, checkpoint_type, current_time) ==
    [kind |-> "success", name |-> name, athlete_id |-> athlete_id,
     checkpoint_type |-> checkpoint_type, timestamp |-> current_time]

\* display_timing_scanner reached and run without any check of the session.
display_timing_scanner_NoPermission(u, pw, checkpoint_type) ==
    /\ LET verified_athlete == VerifiedAthlete(athletes, u, pw)
           athlete_id == verified_athlete[1].athlete_id
           name == verified_athlete[1].username
       IN IF u = "" \/ pw = ""
          THEN /\ msg' = [kind |-> "incomplete"]
               /\ first' = NoMsg
               /\ UNCHANGED records
          ELSE IF verified_athlete = <<>>
          THEN /\ msg' = [kind |-> "unknown"]
               /\ first' = NoMsg
               /\ UNCHANGED records
          ELSE /\ first' = IF /\ msg.kind = "success"
                              /\ msg.athlete_id = athlete_id
                              /\ msg.checkpoint_type = checkpoint_type
                           THEN msg ELSE NoMsg
               /\ IF ExistingRecords(records, athlete_id, checkpoint_type) # <<>>
                  THEN /\ msg' = [kind |-> "duplicate", name |-> name,
                                  checkpoint_type |-> checkpoint_type]
                       /\ UNCHANGED records
                  ELSE /\ Len(records) < MaxRows
                       /\ records' = Append(records,
                              NewRecord(athlete_id, checkpoint_type, now))
                       /\ msg' = SuccessMsg(name, athlete_id, checkpoint_type, now)
    /\ UNCHANGED <<athletes, session, now, scan, rest>>

\* display_timing_scanner, the form submitted with username u and password
\* pw while the select box shows checkpoint_type.
display_timing_scanner(u, pw, checkpoint_type) ==
    /\ "timing" \in Pages
    /\ check_permission({"SuperAdmin", "Referee"})
    /\ LET verified_athlete == VerifiedAthlete(athletes, u, pw)
           athlete_id == verified_athlete[1].athlete_id
           name == verified_athlete[1].username
       IN IF u = "" \/ pw = ""
          THEN /\ msg' = [kind |-> "incomplete"]
               /\ first' = NoMsg
               /\ UNCHANGED records
          ELSE IF verified_athlete = <<>>
          THEN /\ msg' = [kind |-> "unknown"]
               /\ first' = NoMsg
               /\ UNCHANGED records
          ELSE /\ first' = IF /\ msg.kind = "success"
                              /\ msg.athlete_id = athlete_id
                              /\ msg.checkpoint_type = checkpoint_type
                           THEN msg ELSE NoMsg
               /\ IF ExistingRecords(records, athlete_id, checkpoint_type) # <<>>
                  THEN /\ msg' = [kind |-> "duplicate", name |-> name,
                                  checkpoint_type |-> checkpoint_type]
                       /\ UNCHANGED records
                  ELSE /\ Len(records) < MaxRows
                       /\ records' = Append(records,
                              NewRecord(athlete_id, checkpoint_type, now))
                       /\ msg' = SuccessMsg(name, athlete_id, checkpoint_type, now)
    /\ UNCHANGED <<athletes, session, now, scan, rest>>

\* The cells an administrator can type into the record editor.
EditIds == {FirstId, FirstId + 1}
EditCheckpoints == CheckpointTypes \cup {"REST"}
EditTimes == (0..MaxClock) \cup {NaT, BadTime}

\* st.data_editor(df_records, num_rows="dynamic"): the table as loaded, with
\* one row added, one row deleted or one cell changed.
EditedRecords(df_records) ==
    {df_records}
    \cup {Append(df_records, NewRecord(id, c, t)) :
            id \in EditIds, c \in EditCheckpoints,
            t \in IF Len(df_records) < MaxRows THEN EditTimes ELSE {}}
    \cup {SubSeq(df_records, 1, i - 1) \o SubSeq(df_records, i + 1, Len(df_records)) :
            i \in DOMAIN df_records}
    \cup UNION {{[df_records EXCEPT ![i].athlete_id = id] : id \in EditIds}
                \cup {[df_records EXCEPT ![i].checkpoint_type = c] : c \in EditCheckpoints}
                \cup {[df_records EXCEPT ![i].timestamp = t] : t \in EditTimes} :
                i \in DOMAIN df_records}

\* AdminSaveRecords without the check of the checkpoint_type column.
AdminSaveRecords_NoCheckpointCheck(edited_df) ==
    /\ "data" \in Pages
    /\ check_permission({"SuperAdmin"})
    /\ IF \E r \in Range(edited_df) : r.timestamp = BadTime
       THEN msg' = [kind |-> "bad_timestamp"] /\ UNCHANGED records
       ELSE msg' = [kind |-> "saved"] /\ records' = edited_df
    /\ first' = NoMsg
    /\ UNCHANGED <<athletes, session, now, scan, rest>>

\* display_admin_data_management, the save button of the record editor.
AdminSaveRecords(edited_df) ==
    /\ "data" \in Pages
    /\ check_permission({"SuperAdmin"})
    /\ IF \E r \in Range(edited_df) : r.timestamp = BadTime
       THEN msg' = [kind |-> "bad_timestamp"] /\ UNCHANGED records
       ELSE IF ~(\A r \in Range(edited_df) : r.checkpoint_type \in {"START", "MID", "FINISH"})
       THEN msg' = [kind |-> "bad_checkpoint"] /\ UNCHANGED records
       ELSE msg' = [kind |-> "saved"] /\ records' = edited_df
    /\ first' = NoMsg
    /\ UNCHANGED <<athletes, session, now, scan, rest>>

\* os.path.getsize of a CSV file: the header line and one line per row.
\* main_app loads both files before any page runs, so both files exist.
getsize(df) == 1 + Len(df)

\* The name of an archive file: its prefix and the timestamp, to the second.
ArchiveName(prefix, timestamp) == <<prefix, timestamp>>

\* os.rename(file, new_archive_name): the archive holds the rows of the
\* file, in place of an archive of the same name.
Rename(files, df, new_archive_name) ==
    [n \in DOMAIN files \cup {new_archive_name} |->
        IF n = new_archive_name THEN df ELSE files[n]]

\* display_archive_reset, the button calling archive_and_reset_race_data:
\* each file that exists with a size above zero is renamed to an archive,
\* both files are created again with their header only, and the result is
\* whether a file was archived.
archive_and_reset_race_data ==
    /\ "archive" \in Pages
    /\ check_permission({"SuperAdmin"})
    /\ LET athletes_archived == getsize(athletes) > 0
           records_archived == getsize(records) > 0
           after_athletes ==
               IF athletes_archived
               THEN Rename(archives, athletes, ArchiveName("ARCHIVE_ATHLETES", now))
               ELSE archives
           after_records ==
               IF records_archived
               THEN Rename(after_athletes, records, ArchiveName("ARCHIVE_RECORDS", now))
               ELSE after_athletes
       IN /\ archives' = after_records
          /\ msg' = [kind |-> "archived",
                     result |-> athletes_archived \/ records_archived]
    /\ athletes' = <<>>
    /\ records' = <<>>
    /\ first' = NoMsg
    /\ UNCHANGED <<session, now, scan, config, qr, seconds>>

\* display_results_ranking: what the page shows for the calculated table
\* df_calculated and the merged table df_final; order is the row order the
\* sort leaves.
RankingMsg(df_calculated, df_final, order) ==
    LET sorted == [i \in DOMAIN df_final |-> df_final[order[i]]]
    IN IF df_calculated.error THEN [kind |-> "exception"]
       ELSE IF df_calculated.rows = <<>> THEN [kind |-> "no_results"]
       ELSE [kind |-> "ranking", rows |-> WithRank(sorted)]

\* display_results_ranking writing the table it cleaned back to the record
\* store.
display_results_ranking_Saving ==
    /\ "ranking" \in Pages
    /\ check_permission({"SuperAdmin", "Leader"})
    /\ LET df_calculated == calculate_net_time(records)
           df_final == MergeLeft(df_calculated.rows, athletes)
       IN \E order \in RowOrders(Len(df_final)) :
             /\ IsSortedAscending([i \in DOMAIN df_final |-> df_final[order[i]]])
             /\ msg' = RankingMsg(df_calculated, df_final, order)
    /\ records' = ValidRecords(records)
    /\ first' = NoMsg
    /\ UNCHANGED <<athletes, session, now, scan, rest>>

display_results_ranking ==
    /\ "ranking" \in Pages
    /\ check_permission({"SuperAdmin", "Leader"})
    /\ LET df_calculated == calculate_net_time(records)
           df_final == MergeLeft(df_calculated.rows, athletes)
       IN \E order \in RowOrders(Len(df_final)) :
             /\ IsSortedAscending([i \in DOMAIN df_final |-> df_final[order[i]]])
             /\ msg' = RankingMsg(df_calculated, df_final, order)
    /\ first' = NoMsg
    /\ UNCHANGED <<athletes, records, session, now, scan, rest>>

Next ==
    \/ Tick
    \/ \E u \in DOMAIN Users \cup {"nobody"},
          pw \in {Users[x].password : x \in DOMAIN Users} \cup {"wrong"} : Login(u, pw)
    \/ Logout
    \/ \E u \in Names, pw \in Phones : AthleteLogin(u, pw)
    \/ AthleteLogout
    \/ \E name \in Names, phone \in Phones : Register(name, phone)
    \/ \E u \in Names \cup {""}, pw \in Phones, c \in CheckpointTypes :
          display_timing_scanner(u, pw, c)
    \/ \E edited_df \in EditedRecords(records) : AdminSaveRecords(edited_df)
    \/ display_results_ranking

Spec == Init /\ [][Next]_vars

-----------------------------------------------------------------------------
(* SpecConc: two staff sessions submit check-ins at the same time.  Each   *)
(* session runs display_timing_scanner on its own thread; the threads meet *)
(* only at the files, so the handler is cut at its file reads and writes.  *)

Sessions == {"s1", "s2"}

Idle == [pc |-> "idle"]

\* Two participants are registered and both sessions are referee sessions.
InitConc ==
    /\ athletes = <<[athlete_id |-> FirstId, username |-> "zhang", password |-> "p1"],
                    [athlete_id |-> FirstId + 1, username |-> "li", password |-> "p2"]>>
    /\ records = <<>>
    /\ logged_in = TRUE
    /\ username = "referee01"
    /\ user_role = "Referee"
    /\ athlete_logged_in = FALSE
    /\ now = 0
    /\ msg = NoMsg
    /\ first = NoMsg
    /\ scan = [s \in Sessions |-> Idle]
    /\ InitRest

\* Lines 310-329: the form is submitted; load_athletes_data and the
\* verification of the account.
ScanVerify(s, u, pw, checkpoint_type) ==
    /\ scan[s].pc = "idle"
    /\ check_permission({"SuperAdmin", "Referee"})
    /\ LET verified_athlete == VerifiedAthlete(athletes, u, pw)
       IN scan' = [scan EXCEPT ![s] =
            IF verified_athlete = <<>>
            THEN [pc |-> "done", outcome |-> "unknown"]
            ELSE [pc |-> "verified",
                  athlete_id |-> verified_athlete[1].athlete_id,
                  checkpoint_type |-> checkpoint_type]]
    /\ UNCHANGED <<athletes, records, session, now, msg, first, rest>>

\* Line 332: df_records = load_records_data().
ScanLoad(s) ==
    /\ scan[s].pc = "verified"
    /\ scan' = [scan EXCEPT ![s] =
            [pc |-> "loaded", athlete_id |-> scan[s].athlete_id,
             checkpoint_type |-> scan[s].checkpoint_type,
             df_records |-> records]]
    /\ UNCHANGED <<athletes, records, session, now, msg, first, rest>>

\* Lines 333-340: the duplicate check on the loaded table.
ScanCheck(s) ==
    /\ scan[s].pc = "loaded"
    /\ scan' = [scan EXCEPT ![s] =
            IF ExistingRecords(scan[s].df_records, scan[s].athlete_id,
                               scan[s].checkpoint_type) # <<>>
            THEN [pc |-> "done", outcome |-> "duplicate",
                  athlete_id |-> scan[s].athlete_id,
                  checkpoint_type |-> scan[s].checkpoint_type]
            ELSE [scan[s] EXCEPT !.pc = "checked"]]
    /\ UNCHANGED <<athletes, records, session, now, msg, first, rest>>

\* Lines 343-355: the new row is appended to the loaded table and the table
\* is written over the file.
ScanSave(s) ==
    /\ scan[s].pc = "checked"
    /\ records' = Append(scan[s].df_records,
                         NewRecord(scan[s].athlete_id, scan[s].checkpoint_type, now))
    /\ scan' = [scan EXCEPT ![s] =
            [pc |-> "done", outcome |-> "success",
             athlete_id |-> scan[s].athlete_id,
             checkpoint_type |-> scan[s].checkpoint_type]]
    /\ UNCHANGED <<athletes, session, now, msg, first, rest>>

NextConc ==
    \/ Tick
    \/ \E s \in Sessions, u \in Names, pw \in Phones, c \in CheckpointTypes :
          ScanVerify(s, u, pw, c)
    \/ \E s \in Sessions : ScanLoad(s)
    \/ \E s \in Sessions : ScanCheck(s)
    \/ \E s \in Sessions : ScanSave(s)

SpecConc == InitConc /\ [][NextConc]_vars

-----------------------------------------------------------------------------
(* SpecCalc: calculate_net_time and display_results_ranking on every       *)
(* record table of at most MaxCalcRows rows.  Both group the rows by       *)
(* athlete_id and checkpoint_type, so the tables are taken up to the order *)
(* of their rows: the store is filled in a fixed order of the rows.        *)

CalcTimes == (0..MaxCalcTime) \cup {NaT}

\* The place of a row in the fixed order.
RowKey(r) ==
    LET cp == CASE r.checkpoint_type = "START" -> 0
                [] r.checkpoint_type = "MID" -> 1
                [] r.checkpoint_type = "FINISH" -> 2
    IN ((r.athlete_id - FirstId) * 3 + cp) * (MaxCalcTime + 2) + (r.timestamp + 1)

\* Two participants are registered and a super administrator is logged in.
InitCalc ==
    /\ athletes = <<[athlete_id |-> FirstId, username |-> "zhang", password |-> "p1"],
                    [athlete_id |-> FirstId + 1, username |-> "li", password |-> "p2"]>>
    /\ records = <<>>
    /\ logged_in = TRUE
    /\ username = "admin"
    /\ user_role = "SuperAdmin"
    /\ athlete_logged_in = FALSE
    /\ now = 0
    /\ msg = NoMsg
    /\ first = NoMsg
    /\ scan = <<>>
    /\ InitRest

\* A row enters the record store (a check-in or an administrative save).
StoreRow(athlete_id, checkpoint_type, timestamp) ==
    /\ Len(records) < MaxCalcRows
    /\ LET r == NewRecord(athlete_id, checkpoint_type, timestamp)
       IN /\ records # <<>> => RowKey(records[Len(records)]) <= RowKey(r)
          /\ records' = Append(records, r)
    /\ msg' = NoMsg
    /\ UNCHANGED <<athletes, session, now, first, scan, rest>>

\* calculate_net_time applied to the record store as loaded.
CalculateNetTime ==
    /\ LET df_results == calculate_net_time(records)
       IN msg' = IF df_results.error
                 THEN [kind |-> "exception"]
                 ELSE [kind |-> "net", rows |-> df_results.rows]
    /\ UNCHANGED <<athletes, records, session, now, first, scan, rest>>

NextCalc ==
    \/ \E id \in EditIds, c \in CheckpointTypes, t \in CalcTimes : StoreRow(id, c, t)
    \/ CalculateNetTime
    \/ display_results_ranking

SpecCalc == InitCalc /\ [][NextCalc]_vars

-----------------------------------------------------------------------------
(* SpecArchive: a super administrator registers participants, records      *)
(* check-ins and archives the race.                                        *)

NextArchive ==
    \/ Tick
    \/ Login("admin", Users["admin"].password)
    \/ Register("zhang", "p1")
    \/ \E u \in Names, c \in CheckpointTypes : display_timing_scanner(u, "p1", c)
    \/ archive_and_reset_race_data

SpecArchive == Init /\ [][NextArchive]_vars

-----------------------------------------------------------------------------
(* SpecAthletes: registrations and the participant editor of               *)
(* display_admin_data_management.                                          *)

\* The ids an administrator can type into the participant editor.
EditAthleteIds ==
    {FirstId, FirstId + 1, 0 - FirstId, NonDigitId, EmptyId, Two64 + 1}

\* astype(str).str.strip()
Strip(athlete_id) ==
    IF athlete_id <= 0 - FirstId THEN 0 - athlete_id ELSE athlete_id

\* st.data_editor(df_display, num_rows="dynamic"): the table as loaded, with
\* one row added, one row deleted or one cell changed.  The columns name
\* and phone of a row are the account and the password of the participant.
EditedAthletes(df_athletes) ==
    {df_athletes}
    \cup {Append(df_athletes, [athlete_id |-> id, username |-> name, password |-> phone]) :
            id \in EditAthleteIds, name \in Names,
            phone \in IF Len(df_athletes) < MaxAthletes THEN Phones ELSE {}}
    \cup {SubSeq(df_athletes, 1, i - 1) \o SubSeq(df_athletes, i + 1, Len(df_athletes)) :
            i \in DOMAIN df_athletes}
    \cup UNION {{[df_athletes EXCEPT ![i].athlete_id = id] : id \in EditAthleteIds}
                \cup {[df_athletes EXCEPT ![i].username = name] : name \in Names}
                \cup {[df_athletes EXCEPT ![i].password = phone] : phone \in Phones} :
                i \in DOMAIN df_athletes}

\* original_df.merge(edited_df_display, on='athlete_id', how='right'): every
\* edited row once for each row of the file with its athlete_id, and once
\* where the file has no such row.
MergeRight(original_df, edited_df_display) ==
    Flatten([i \in DOMAIN edited_df_display |->
        LET row == edited_df_display[i]
            matches == SelectSeq(original_df,
                                 LAMBDA a : a.athlete_id = row.athlete_id)
        IN IF matches = <<>> THEN <<row>>
           ELSE [j \in DOMAIN matches |-> row]])

\* display_admin_data_management, the save button of the participant
\* editor.
AdminSaveAthletes(edited_df_display) ==
    /\ "data" \in Pages
    /\ check_permission({"SuperAdmin", "Referee"})
    /\ LET merged_df == MergeRight(athletes, edited_df_display)
           ids == [i \in DOMAIN merged_df |-> Strip(merged_df[i].athlete_id)]
       IN IF \E i, j \in DOMAIN ids : i # j /\ ids[i] = ids[j]
          THEN msg' = [kind |-> "id_duplicated"] /\ UNCHANGED athletes
          ELSE IF \E i \in DOMAIN ids : ids[i] = NonDigitId
          THEN msg' = [kind |-> "id_not_numeric"] /\ UNCHANGED athletes
          ELSE IF \E i \in DOMAIN ids : ids[i] = EmptyId
          THEN msg' = [kind |-> "id_empty"] /\ UNCHANGED athletes
          ELSE /\ msg' = [kind |-> "athletes_saved"]
               /\ athletes' = [i \in DOMAIN merged_df |->
                                 [merged_df[i] EXCEPT !.athlete_id = ids[i]]]
    /\ first' = NoMsg
    /\ UNCHANGED <<records, session, now, scan, rest>>

NextAthletes ==
    \/ \E u \in {"admin", "referee01"} : Login(u, Users[u].password)
    \/ Logout
    \/ \E name \in Names, phone \in Phones : Register(name, phone)
    \/ \E edited_df_display \in EditedAthletes(athletes) :
          AdminSaveAthletes(edited_df_display)

SpecAthletes == Init /\ [][NextAthletes]_vars

-----------------------------------------------------------------------------
(* SpecToken: the token codec and the issuance session of one station      *)
(* (spec.md, sections 4.1 and 4.5).                                        *)

\* The clock of SpecToken runs from 0 to MaxTokenClock; expiry windows are
\* 1..MaxExpiry seconds.
MaxTokenClock == 4
MaxExpiry == 2

\* The context label mixed into the signature, and the server-held key.
Purpose == "checkpoint-timing"
SecretKey == "secret-key"
\* The configured base URL.
BaseUrl == "https://host/checkin"

\* The signature of a payload: equal for equal key, purpose and payload only.
Sign(payload, purpose) ==
    [key |-> SecretKey, purpose |-> purpose, payload |-> payload]

\* issue(checkpoint_kind, issued_at, expiry_seconds): the payload
\* {checkpoint_kind, issued_at} serialized and signed.
issue(checkpoint_kind, issued_at, expiry_seconds) ==
    [payload |-> <<checkpoint_kind, issued_at>>,
     signature |-> Sign(<<checkpoint_kind, issued_at>>, Purpose)]

\* verify failing with Expired already when now - issued_at = max_age_seconds.
verify_ExpiresEarly(token, purpose, max_age_seconds, t) ==
    IF t - token.payload[2] >= max_age_seconds
    THEN [kind |-> "Expired"]
    ELSE IF token.signature # Sign(token.payload, purpose)
    THEN [kind |-> "InvalidSignature"]
    ELSE [kind |-> "ok", checkpoint_kind |-> token.payload[1]]

\* verify(token, purpose, max_age_seconds, now)
verify(token, purpose, max_age_seconds, t) ==
    IF t - token.payload[2] > max_age_seconds
    THEN [kind |-> "Expired"]
    ELSE IF token.signature # Sign(token.payload, purpose)
    THEN [kind |-> "InvalidSignature"]
    ELSE [kind |-> "ok", checkpoint_kind |-> token.payload[1]]

\* The issuance session holding an active token.
Active(token, checkpoint_kind, issued_at, expiry_seconds) ==
    [state |-> "Active", active_token |-> token,
     checkpoint_kind |-> checkpoint_kind, issued_at |-> issued_at,
     expiry_seconds |-> expiry_seconds]

\* get_or_rotate that keeps the active token when the selected checkpoint
\* kind changes.
get_or_rotate_IgnoresKind(state, checkpoint_kind, t, expiry_seconds) ==
    IF \/ state = Empty
       \/ t - state.issued_at > expiry_seconds
    THEN LET token == issue(checkpoint_kind, t, expiry_seconds)
         IN [state |-> Active(token, checkpoint_kind, t, expiry_seconds),
             token |-> token, url |-> <<BaseUrl, "?token=", token>>]
    ELSE [state |-> state, token |-> state.active_token,
          url |-> <<BaseUrl, "?token=", state.active_token>>]

\* get_or_rotate(checkpoint_kind, now, expiry_seconds) on the session state.
get_or_rotate(state, checkpoint_kind, t, expiry_seconds) ==
    IF \/ state = Empty
       \/ state.checkpoint_kind # checkpoint_kind
       \/ t - state.issued_at > expiry_seconds
    THEN LET token == issue(checkpoint_kind, t, expiry_seconds)
         IN [state |-> Active(token, checkpoint_kind, t, expiry_seconds),
             token |-> token, url |-> <<BaseUrl, "?token=", token>>]
    ELSE [state |-> state, token |-> state.active_token,
          url |-> <<BaseUrl, "?token=", state.active_token>>]

\* Time passes at the station.
Advance ==
    /\ now < MaxTokenClock
    /\ now' = now + 1
    /\ UNCHANGED <<athletes, records, session, msg, first, scan, rest>>

\* The display surface polls get_or_rotate for the selected checkpoint.
GetOrRotate(checkpoint_kind, expiry_seconds) ==
    /\ LET r == get_or_rotate(qr, checkpoint_kind, now, expiry_seconds)
       IN /\ qr' = r.state
          /\ msg' = [kind |-> "token", checkpoint_kind |-> checkpoint_kind,
                     expiry_seconds |-> expiry_seconds, token |-> r.token,
                     url |-> r.url]
    /\ UNCHANGED <<athletes, records, session, now, first, scan,
                   config, archives, seconds>>

\* A token issued for checkpoint_kind at issued_at is presented now.
VerifyToken(checkpoint_kind, issued_at, expiry_seconds) ==
    /\ issued_at <= now
    /\ msg' = [kind |-> "verify", checkpoint_kind |-> checkpoint_kind,
               issued_at |-> issued_at, expiry_seconds |-> expiry_seconds,
               at |-> now,
               result |-> verify(issue(checkpoint_kind, issued_at, expiry_seconds),
                                 Purpose, expiry_seconds, now)]
    /\ UNCHANGED <<athletes, records, session, now, first, scan, rest>>

NextToken ==
    \/ Advance
    \/ \E k \in CheckpointTypes, E \in 1..MaxExpiry : GetOrRotate(k, E)
    \/ \E k \in CheckpointTypes, T \in 0..MaxTokenClock, E \in 1..MaxExpiry :
          VerifyToken(k, T, E)

SpecToken == Init /\ [][NextToken]_vars

-----------------------------------------------------------------------------
(* SpecFormat: format_time applied to every duration within the bounds.    *)
(* A duration is None, NaN or a number of seconds; the number is held in   *)
(* units of a ten-thousandth of a second.                                  *)

\* Durations run up to MaxMinutes minutes.
MaxMinutes == 100

\* One second, in the units of a duration.
Second == 10000

\* The durations handed to format_time.  The tenth-of-a-millisecond digit
\* is never 5: the side to which '.3f' rounds such a float depends on its
\* binary expansion.
FormatInputs ==
    {NoSeconds, [kind |-> "NaN"]}
    \cup {[kind |-> "num", t |-> ((m * 60 + sec) * 1000 + ms) * 10 + f] :
            m \in 0..MaxMinutes, sec \in {0, 3, 59}, ms \in {0, 500, 999},
            f \in {0, 4, 6}}
    \cup {[kind |-> "num", t |-> 0 - t] : t \in {1, 5000, Second, 60 * Second}}

\* The characters of the decimal digits.
Digit(d) == <<"0", "1", "2", "3", "4", "5", "6", "7", "8", "9">>[d + 1]

\* The decimal digits of a natural number, as format() writes them.
RECURSIVE Digits(_)
Digits(n) ==
    IF n < 10 THEN <<Digit(n)>> ELSE Digits(n \div 10) \o <<Digit(n % 10)>>

\* Zero padding on the left to a width of at least w characters.
ZeroPad(text, w) ==
    IF Len(text) >= w THEN text
    ELSE [i \in 1..(w - Len(text)) |-> "0"] \o text

\* f"{minutes:02d}"
Format02d(minutes) == ZeroPad(Digits(minutes), 2)

\* f"{remaining_seconds:06.3f}": rounded to the nearest thousandth, three
\* decimals, zero padded to six characters.
Format063f(remaining_seconds) ==
    LET thousandths == (remaining_seconds + 5) \div 10
    IN ZeroPad(Digits(thousandths \div 1000) \o <<".">>
               \o ZeroPad(Digits(thousandths % 1000), 3), 6)

\* format_time that also treats a duration of zero as absent.
format_time_ZeroIsNA(sec) ==
    IF sec.kind \in {"None", "NaN"} THEN <<"N", "/", "A">>
    ELSE IF sec.t <= 0 THEN <<"N", "/", "A">>
    ELSE LET minutes == sec.t \div (60 * Second)
             remaining_seconds == sec.t % (60 * Second)
         IN Format02d(minutes) \o <<":">> \o Format063f(remaining_seconds)

\* format_time(seconds)
format_time(sec) ==
    IF sec.kind \in {"None", "NaN"} THEN <<"N", "/", "A">>
    ELSE IF sec.t < 0 THEN <<"N", "/", "A">>
    ELSE LET minutes == sec.t \div (60 * Second)
             remaining_seconds == sec.t % (60 * Second)
         IN Format02d(minutes) \o <<":">> \o Format063f(remaining_seconds)

InitFormat ==
    /\ athletes = <<>>
    /\ records = <<>>
    /\ logged_in = FALSE
    /\ username = "None"
    /\ user_role = "None"
    /\ athlete_logged_in = FALSE
    /\ now = 0
    /\ msg = NoMsg
    /\ first = NoMsg
    /\ scan = <<>>
    /\ config = Users
    /\ archives = <<>>
    /\ qr = Empty
    /\ seconds \in FormatInputs

\* A cell of the ranking table is rendered.
FormatTime ==
    /\ msg' = [kind |-> "formatted", text |-> format_time(seconds)]
    /\ UNCHANGED <<athletes, records, session, now, first, scan, rest>>

NextFormat == FormatTime

SpecFormat == InitFormat /\ [][NextFormat]_vars

-----------------------------------------------------------------------------
(* SpecUsers: the user management of display_user_management.  Every run   *)
(* of the script starts with config = load_config(); the handlers change   *)
(* that object and write it to config.json.                                *)

Roles == {"SuperAdmin", "Leader", "Referee"}

\* What the password column shows while passwords are hidden.
Masked == "********"

\* The user names and passwords typed into the forms.
UserNames == {"admin", "boss"}
Passwords == {"pw"}

\* df_users: one row per user of the loaded configuration.
UsersTable(users, show_passwords) ==
    [u \in DOMAIN users |->
        [role |-> users[u].role,
         password |-> IF show_passwords THEN users[u].password ELSE Masked]]

\* st.data_editor(df_users, num_rows="disabled"): the table with one role
\* changed, or one password changed or emptied while passwords are shown.
EditedUsers(users, show_passwords) ==
    LET df_users == UsersTable(users, show_passwords)
    IN {df_users}
       \cup {[df_users EXCEPT ![u].role = r] : u \in DOMAIN users, r \in Roles}
       \cup (IF show_passwords
             THEN {[df_users EXCEPT ![u].password = pw] :
                     u \in DOMAIN users, pw \in Passwords \cup {""}}
             ELSE {})

\* The save button of the user table.
SaveUsers(show_passwords, edited_df) ==
    /\ "data" \in Pages
    /\ check_permission({"SuperAdmin"})
    /\ LET users == load_config(config)
           new_users_config ==
               [u \in DOMAIN edited_df |->
                   [password |-> IF edited_df[u].password = Masked
                                 THEN users[u].password
                                 ELSE edited_df[u].password,
                    role |-> edited_df[u].role]]
       IN IF \E u \in DOMAIN new_users_config : new_users_config[u].password = ""
          THEN msg' = [kind |-> "empty_password"] /\ UNCHANGED config
          ELSE IF ~(\E u \in DOMAIN new_users_config :
                        new_users_config[u].role = "SuperAdmin")
          THEN msg' = [kind |-> "no_superadmin"] /\ UNCHANGED config
          ELSE msg' = [kind |-> "saved"] /\ config' = new_users_config
    /\ first' = NoMsg
    /\ UNCHANGED <<athletes, records, session, now, scan, archives, qr, seconds>>

\* The form 'add/update user'.
AddUpdateUser(new_username, new_password, new_role) ==
    /\ "data" \in Pages
    /\ check_permission({"SuperAdmin"})
    /\ LET users == load_config(config)
       IN IF new_username = "" \/ new_password = ""
          THEN msg' = [kind |-> "incomplete"] /\ UNCHANGED config
          ELSE /\ msg' = [kind |-> "user_saved", username |-> new_username]
               /\ config' =
                    [u \in DOMAIN users \cup {new_username} |->
                        IF u = new_username
                        THEN [password |-> new_password, role |-> new_role]
                        ELSE users[u]]
    /\ first' = NoMsg
    /\ UNCHANGED <<athletes, records, session, now, scan, archives, qr, seconds>>

\* The button 'delete user': every user but the one logged in can be chosen.
DeleteUser(user_to_delete) ==
    /\ "data" \in Pages
    /\ check_permission({"SuperAdmin"})
    /\ LET users == load_config(config)
       IN /\ user_to_delete \in DOMAIN users \ {username}
          /\ config' = [u \in DOMAIN users \ {user_to_delete} |-> users[u]]
          /\ msg' = [kind |-> "user_deleted", username |-> user_to_delete]
    /\ first' = NoMsg
    /\ UNCHANGED <<athletes, records, session, now, scan, archives, qr, seconds>>

NextUsers ==
    \/ \E u \in DOMAIN Users \cup UserNames,
          pw \in {Users[x].password : x \in DOMAIN Users} \cup Passwords : Login(u, pw)
    \/ Logout
    \/ \E show_passwords \in BOOLEAN :
          \E edited_df \in EditedUsers(load_config(config), show_passwords) :
             SaveUsers(show_passwords, edited_df)
    \/ \E u \in UserNames \cup {""}, pw \in Passwords, r \in Roles :
          AddUpdateUser(u, pw, r)
    \/ \E u \in DOMAIN Users \cup UserNames : DeleteUser(u)

SpecUsers == Init /\ [][NextUsers]_vars

-----------------------------------------------------------------------------
(* Properties *)

\* Some participant row carries username u and password pw.
Registered(u, pw) ==
    \E i \in DOMAIN athletes :
        athletes[i].username = u /\ athletes[i].password = pw

\* The athlete_id of the first row that carries username u and password pw.
IdOf(u, pw) ==
    athletes[Min({i \in DOMAIN athletes :
                    athletes[i].username = u /\ athletes[i].password = pw})].athlete_id

\* The places of the record store that hold an event of the pair.
EventsOf(athlete_id, checkpoint_type) ==
    {i \in DOMAIN records :
        /\ records[i].athlete_id = athlete_id
        /\ records[i].checkpoint_type = checkpoint_type}

\* What every step of display_timing_scanner shows and leaves alone.
ScannerStep ==
    /\ msg'.kind \in {"incomplete", "unknown", "duplicate", "success"}
    /\ UNCHANGED <<athletes, session, now>>

\* A check-in of a registered participant at a checkpoint that holds no
\* event of theirs succeeds, and stores the event with the current time.
FirstSubmissionSucceeds ==
    ScannerStep =>
    \A u \in Names, pw \in Phones, c \in CheckpointTypes :
        (/\ Registered(u, pw)
         /\ EventsOf(IdOf(u, pw), c) = {}
         /\ display_timing_scanner(u, pw, c))
        => /\ msg'.kind = "success"
           /\ msg'.athlete_id = IdOf(u, pw)
           /\ msg'.checkpoint_type = c
           /\ msg'.timestamp = now
           /\ records' = Append(records,
                 [athlete_id |-> IdOf(u, pw), checkpoint_type |-> c,
                  timestamp |-> now])

\* A check-in that repeats the successful check-in just before it is
\* reported as a duplicate, and the store holds one event of the pair, with
\* the time of the first check-in.
SecondSubmissionIsDuplicate ==
    first # NoMsg =>
        /\ msg.kind = "duplicate"
        /\ \E i \in DOMAIN records :
              /\ EventsOf(first.athlete_id, first.checkpoint_type) = {i}
              /\ records[i].timestamp = first.timestamp

\* C1: record(p, c) at t1 and again at a later t2, nothing in between: the
\* first submission succeeds, the second is reported as a duplicate, and the
\* store holds exactly one event for (p, c), with timestamp t1.
C1_IdempotentRecording ==
    [][FirstSubmissionSucceeds]_vars /\ []SecondSubmissionIsDuplicate

\* A second submission at a later time was reported as a duplicate.
C1_Witness ==
    /\ first # NoMsg
    /\ msg.kind = "duplicate"
    /\ now > first.timestamp

\* C2: of two concurrent submissions for the same participant and
\* checkpoint, exactly one reports success and the other duplicate, and the
\* store ends with exactly one event for the pair.
C2_ExactlyOneSuccess ==
    \A s, t \in Sessions :
        (/\ s # t
         /\ scan[s].pc = "done" /\ scan[t].pc = "done"
         /\ scan[s].outcome # "unknown" /\ scan[t].outcome # "unknown"
         /\ scan[s].athlete_id = scan[t].athlete_id
         /\ scan[s].checkpoint_type = scan[t].checkpoint_type)
        => /\ {scan[s].outcome, scan[t].outcome} = {"success", "duplicate"}
           /\ Cardinality(EventsOf(scan[s].athlete_id, scan[s].checkpoint_type)) = 1

\* C3: in every reachable state the record store holds at most one event
\* per (athlete_id, checkpoint_type) pair.
C3_AtMostOneEventPerPair ==
    \A i, j \in DOMAIN records :
        (/\ records[i].athlete_id = records[j].athlete_id
         /\ records[i].checkpoint_type = records[j].checkpoint_type)
        => i = j

\* C4: a check-in whose username and password match no participant row is
\* rejected and leaves the record store as it was.
C4_UnknownParticipantRejected ==
    [][ScannerStep =>
        \A u \in Names \cup {""}, pw \in Phones, c \in CheckpointTypes :
          (~Registered(u, pw) /\ display_timing_scanner(u, pw, c))
          => /\ msg'.kind \in {"unknown", "incomplete"}
             /\ records' = records]_vars

\* A check-in was rejected as unknown while the store held events.
C4_Witness ==
    /\ msg.kind = "unknown"
    /\ records # <<>>
    /\ athletes # <<>>

\* C5: calculate_net_time never ends with an error.
C5_NeverFails ==
    msg.kind # "exception"

\* The timestamps of the events the store holds for the pair.
EventTimes(athlete_id, checkpoint_type) ==
    {records[i].timestamp : i \in {j \in EventsOf(athlete_id, checkpoint_type) :
                                       records[j].timestamp \notin {NaT, BadTime}}}

\* The earliest of them.
Earliest(athlete_id, checkpoint_type) ==
    CHOOSE t \in EventTimes(athlete_id, checkpoint_type) :
        \A x \in EventTimes(athlete_id, checkpoint_type) : t <= x

\* The participants with an entry in the calculated table.
Entries == {msg.rows[i].athlete_id : i \in DOMAIN msg.rows}

\* C6: the total elapsed time of a participant is the earliest FINISH
\* timestamp minus the earliest START timestamp of the events stored.
C6_EarliestTimestampWins ==
    msg.kind = "net" =>
        \A i \in DOMAIN msg.rows :
            LET id == msg.rows[i].athlete_id
            IN /\ EventTimes(id, "START") # {}
               /\ EventTimes(id, "FINISH") # {}
               /\ msg.rows[i].total_time_sec =
                    Earliest(id, "FINISH") - Earliest(id, "START")

\* A participant with two different START timestamps has an entry.
C6_Witness ==
    /\ msg.kind = "net"
    /\ \E i \in DOMAIN msg.rows :
          Cardinality(EventTimes(msg.rows[i].athlete_id, "START")) > 1

\* C7: a participant whose FINISH is not after START has no entry, and
\* every entry has a total elapsed time greater than zero.
C7_InvalidOrderingExcluded ==
    msg.kind = "net" =>
        /\ \A i \in DOMAIN msg.rows : msg.rows[i].total_time_sec > 0
        /\ \A id \in EditIds :
              (/\ EventTimes(id, "START") # {}
               /\ EventTimes(id, "FINISH") # {}
               /\ Earliest(id, "FINISH") <= Earliest(id, "START"))
              => id \notin Entries

\* A participant with FINISH equal to START was left out.
C7_Witness ==
    /\ msg.kind = "net"
    /\ \E id \in EditIds :
          /\ EventTimes(id, "START") # {}
          /\ EventTimes(id, "FINISH") # {}
          /\ Earliest(id, "FINISH") = Earliest(id, "START")
          /\ id \notin Entries

\* C8: a participant has an entry only if the store holds a START event and
\* a FINISH event of theirs.
C8_IncompleteDiscarded ==
    msg.kind = "net" =>
        \A id \in EditIds :
            (EventsOf(id, "START") = {} \/ EventsOf(id, "FINISH") = {})
            => id \notin Entries

\* One participant has an entry while another, without FINISH, has none.
C8_Witness ==
    /\ msg.kind = "net"
    /\ Entries # {}
    /\ \E id \in EditIds :
          /\ EventsOf(id, "START") # {}
          /\ EventsOf(id, "FINISH") = {}
          /\ id \notin Entries

\* The participant's MID timestamp lies strictly between START and FINISH.
MidBetween(id) ==
    /\ EventTimes(id, "MID") # {}
    /\ Earliest(id, "START") < Earliest(id, "MID")
    /\ Earliest(id, "MID") < Earliest(id, "FINISH")

\* C9: both segments are present exactly when MID exists with
\* START < MID < FINISH, and then segment1 = MID - START,
\* segment2 = FINISH - MID and their sum is the total; otherwise both
\* segments are absent, not zero.
C9_SegmentTimes ==
    msg.kind = "net" =>
        \A i \in DOMAIN msg.rows :
            LET row == msg.rows[i]
                id == row.athlete_id
            IN IF MidBetween(id)
               THEN /\ row.segment1_sec = Earliest(id, "MID") - Earliest(id, "START")
                    /\ row.segment2_sec = Earliest(id, "FINISH") - Earliest(id, "MID")
                    /\ row.segment1_sec + row.segment2_sec = row.total_time_sec
               ELSE /\ row.segment1_sec = None /\ row.segment2_sec = None
                    /\ row.segment1_sec # 0 /\ row.segment2_sec # 0

\* One entry has both segments, another has none.
C9_Witness ==
    /\ msg.kind = "net"
    /\ \E i, j \in DOMAIN msg.rows :
          /\ MidBetween(msg.rows[i].athlete_id)
          /\ msg.rows[i].segment1_sec > 0
          /\ msg.rows[i].segment2_sec > 0
          /\ ~MidBetween(msg.rows[j].athlete_id)
          /\ msg.rows[j].segment1_sec = None

\* The participants that qualify for the ranking.
Qualifying ==
    {id \in EditIds :
        /\ EventTimes(id, "START") # {}
        /\ EventTimes(id, "FINISH") # {}
        /\ Earliest(id, "FINISH") > Earliest(id, "START")}

\* C10: the ranking lists the qualifying participants in ascending order of
\* total elapsed time with ranks 1..n in that order; a participant B without
\* MID and with a smaller total than a participant A with
\* START < MID < FINISH is ranked before A, A has both segments, B neither.
C10_Ranking ==
    msg.kind = "ranking" =>
        /\ Len(msg.rows) = Cardinality(Qualifying)
        /\ {msg.rows[i].athlete_id : i \in DOMAIN msg.rows} = Qualifying
        /\ \A i \in DOMAIN msg.rows : msg.rows[i].rank = i
        /\ \A i, j \in DOMAIN msg.rows :
              msg.rows[i].total_time_sec < msg.rows[j].total_time_sec
              => msg.rows[i].rank < msg.rows[j].rank
        /\ \A a, b \in DOMAIN msg.rows :
              (/\ MidBetween(msg.rows[a].athlete_id)
               /\ EventsOf(msg.rows[b].athlete_id, "MID") = {}
               /\ msg.rows[b].total_time_sec < msg.rows[a].total_time_sec)
              => /\ msg.rows[b].rank < msg.rows[a].rank
                 /\ msg.rows[a].segment1_sec # None /\ msg.rows[a].segment2_sec # None
                 /\ msg.rows[b].segment1_sec = None /\ msg.rows[b].segment2_sec = None

\* B, without MID, is ranked first and A, with START < MID < FINISH, second.
C10_Witness ==
    /\ msg.kind = "ranking"
    /\ Len(msg.rows) = 2
    /\ EventsOf(msg.rows[1].athlete_id, "MID") = {}
    /\ MidBetween(msg.rows[2].athlete_id)
    /\ msg.rows[1].total_time_sec < msg.rows[2].total_time_sec

\* C11: computing and displaying the ranking leaves the record store and
\* the participant store as they were, whatever events they hold.
C11_ResultsArePureView ==
    [][(/\ msg'.kind \in {"ranking", "no_results", "exception"}
        /\ display_results_ranking)
       => (athletes' = athletes /\ records' = records)]_vars

\* A ranking was displayed for a store that holds a row without a timestamp.
C11_Witness ==
    /\ msg.kind = "ranking"
    /\ \E i \in DOMAIN records : records[i].timestamp = NaT

\* C12: an event recorded for (participant, checkpoint) stays in the record
\* store after every operation other than archive-and-reset: no check-in,
\* no results computation and no administrative save removes it.
C12_EventsNeverDeleted ==
    [][msg'.kind # "archived" =>
        \A i \in DOMAIN records :
            EventsOf(records[i].athlete_id, records[i].checkpoint_type)' # {}]_vars

\* C13: a token issued for checkpoint kind k at time T with expiry window E
\* verifies to k at every time T + d with 0 <= d <= E, and verification
\* fails with Expired at every time T + d with d > E.
C13_TokenRoundTrip ==
    msg.kind = "verify" =>
        IF msg.at - msg.issued_at <= msg.expiry_seconds
        THEN msg.result = [kind |-> "ok", checkpoint_kind |-> msg.checkpoint_kind]
        ELSE msg.result = [kind |-> "Expired"]

\* A token was verified at the last second of its window, at time T + E.
C13_Witness ==
    /\ msg.kind = "verify"
    /\ msg.at - msg.issued_at = msg.expiry_seconds
    /\ msg.result.kind = "ok"
    /\ msg.issued_at > 0

\* The conditions under which get_or_rotate issues a new token.
MustRotate(checkpoint_kind, expiry_seconds) ==
    \/ qr = Empty
    \/ qr.checkpoint_kind # checkpoint_kind
    \/ now - qr.issued_at > expiry_seconds

\* C14: get_or_rotate issues a new token and replaces the session state
\* exactly when there is no active token, or the selected checkpoint kind
\* differs from the stored one, or now - issued_at > expiry_seconds; in
\* every other call it returns the existing token and leaves the state
\* unchanged.
C14_SessionRotation ==
    [][\A k \in CheckpointTypes, E \in 1..MaxExpiry :
        GetOrRotate(k, E) =>
            IF MustRotate(k, E)
            THEN /\ qr' # qr
                 /\ qr' = Active(msg'.token, k, now, E)
                 /\ msg'.token = issue(k, now, E)
                 /\ qr # Empty => msg'.token # qr.active_token
            ELSE /\ qr' = qr
                 /\ msg'.token = qr.active_token]_vars

\* The session holds a token that has been kept across a poll one second
\* after it was issued.
C14_Witness ==
    /\ msg.kind = "token"
    /\ qr # Empty
    /\ msg.token = qr.active_token
    /\ now > qr.issued_at
    /\ now - qr.issued_at <= msg.expiry_seconds

\* The number that a text of decimal digits denotes.
RECURSIVE Value(_)
Value(text) ==
    IF text = <<>> THEN 0
    ELSE 10 * Value(SubSeq(text, 1, Len(text) - 1))
         + (CHOOSE d \in 0..9 : Digit(d) = text[Len(text)])

IsDigits(text) ==
    \A i \in DOMAIN text : \E d \in 0..9 : Digit(d) = text[i]

\* text reads MM:SS.mmm for the duration t: MM, of two digits or more and
\* without needless zeros, is floor(t / 60); SS.mmm, two digits and three
\* decimals, is t mod 60 to the nearest thousandth.
ReadsAsDuration(text, t) ==
    \E p \in DOMAIN text :
        /\ text[p] = ":"
        /\ LET mm == SubSeq(text, 1, p - 1)
               ss == SubSeq(text, p + 1, Len(text))
           IN /\ Len(mm) >= 2 /\ IsDigits(mm)
              /\ Len(mm) > 2 => mm[1] # "0"
              /\ Value(mm) = t \div (60 * Second)
              /\ Len(ss) = 6 /\ ss[3] = "."
              /\ IsDigits(SubSeq(ss, 1, 2)) /\ IsDigits(SubSeq(ss, 4, 6))
              /\ LET thousandths == Value(SubSeq(ss, 1, 2)) * 1000
                                      + Value(SubSeq(ss, 4, 6))
                 IN 10 * thousandths - (t % (60 * Second)) \in -4..4

\* C15: format_time renders an absent (None/NaN) or negative duration as
\* 'N/A' and every non-negative duration of s seconds as MM:SS.mmm, with
\* MM = floor(s / 60) zero-padded to at least two digits and SS.mmm =
\* s mod 60 zero-padded with three decimals (1800 s as 30:00.000, 423.5 s as
\* 07:03.500); a valid duration is never rendered as the sentinel.
C15_TimeFormatting ==
    msg.kind = "formatted" =>
        /\ IF seconds.kind # "num" \/ seconds.t < 0
           THEN msg.text = <<"N", "/", "A">>
           ELSE /\ ReadsAsDuration(msg.text, seconds.t)
                /\ msg.text # <<"N", "/", "A">>
        /\ seconds = [kind |-> "num", t |-> 1800 * Second]
              => msg.text = <<"3", "0", ":", "0", "0", ".", "0", "0", "0">>
        /\ seconds = [kind |-> "num", t |-> 4235 * (Second \div 10)]
              => msg.text = <<"0", "7", ":", "0", "3", ".", "5", "0", "0">>

\* 423.5 s was rendered.
C15_Witness ==
    /\ msg.kind = "formatted"
    /\ seconds = [kind |-> "num", t |-> 4235 * (Second \div 10)]
    /\ msg.text = <<"0", "7", ":", "0", "3", ".", "5", "0", "0">>

\* C16: after any sequence of user-management operations and a reload of
\* the configuration, the effective user set contains at least one user
\* with role SuperAdmin.
C16_AtLeastOneSuperAdmin ==
    \E u \in DOMAIN load_config(config) : load_config(config)[u].role = "SuperAdmin"

\* C17: after archive_and_reset_race_data both active stores are empty,
\* every store that was non-empty before is preserved unmodified under an
\* archive name, and the function returns true exactly when at least one of
\* the two stores was non-empty beforehand.
C17_ArchiveAndReset ==
    [][(msg'.kind = "archived" /\ archive_and_reset_race_data) =>
        /\ athletes' = <<>> /\ records' = <<>>
        /\ athletes # <<>> => \E n \in DOMAIN archives' : archives'[n] = athletes
        /\ records # <<>> => \E n \in DOMAIN archives' : archives'[n] = records
        /\ msg'.result <=> (athletes # <<>> \/ records # <<>>)]_vars

\* No two rows of the participant store share an athlete_id.
UniqueAthleteIds ==
    \A i, j \in DOMAIN athletes :
        athletes[i].athlete_id = athletes[j].athlete_id => i = j

\* A registration assigns 1001 to the first participant and otherwise one
\* more than the largest numeric id present.
RegistrationAssignsNextId ==
    msg'.kind = "registered" =>
    \A name \in Names, phone \in Phones :
        (Register(name, phone) /\ athletes' # athletes) =>
            athletes'[Len(athletes')].athlete_id =
                IF athletes = <<>> THEN 1001
                ELSE Max({athletes[i].athlete_id : i \in DOMAIN athletes}) + 1

\* An administrative save whose table holds an id twice is rejected and
\* leaves the store as it was.
DuplicatedIdRejected ==
    msg'.kind \in {"id_duplicated", "id_not_numeric", "id_empty", "athletes_saved"} =>
    \A edited_df_display \in EditedAthletes(athletes) :
        (/\ \E i, j \in DOMAIN edited_df_display :
               /\ i # j
               /\ edited_df_display[i].athlete_id = edited_df_display[j].athlete_id
         /\ AdminSaveAthletes(edited_df_display))
        => (msg'.kind = "id_duplicated" /\ athletes' = athletes)

\* C19: after any sequence of registrations and administrative participant
\* saves no two rows of the participant store share an athlete_id; a
\* registration assigns 1001 to the first participant and otherwise one more
\* than the largest numeric id present; an administrative save containing a
\* duplicated id is rejected without changing the store.
C19_UniqueParticipantIds ==
    /\ []UniqueAthleteIds
    /\ [][RegistrationAssignsNextId]_vars
    /\ [][DuplicatedIdRejected]_vars

\* Every event in the record store has a checkpoint kind of the closed set.
CheckpointsAreClosed ==
    \A i \in DOMAIN records : records[i].checkpoint_type \in CheckpointTypes

\* An administrative save whose table holds another checkpoint kind is
\* rejected and leaves the record store as it was.
OtherCheckpointRejected ==
    msg'.kind \in {"bad_timestamp", "bad_checkpoint", "saved"} =>
    \A edited_df \in EditedRecords(records) :
        (/\ \E i \in DOMAIN edited_df :
                edited_df[i].checkpoint_type \notin CheckpointTypes
         /\ AdminSaveRecords(edited_df))
        => (msg'.kind \in {"bad_timestamp", "bad_checkpoint"} /\ records' = records)

\* C18: after any sequence of recordings and administrative record saves
\* every event in the record store has a checkpoint kind in
\* {START, MID, FINISH}; an administrative save that contains any other
\* value is rejected and leaves the record store unchanged.
C18_ClosedCheckpointSet ==
    []CheckpointsAreClosed /\ [][OtherCheckpointRejected]_vars

\* A save with another checkpoint kind was rejected while the store held
\* an event.
C18_Witness ==
    /\ msg.kind = "bad_checkpoint"
    /\ records # <<>>

\* C20: a checkpoint event is written to the record store only in a session
\* that is logged in with session role SuperAdmin or Referee; a session that
\* is logged out, logged in as Leader or logged in as a participant never
\* writes an event.
C20_RecordingRequiresStaff ==
    [][(\E i \in DOMAIN records' : records'[i] \notin Range(records))
       => (/\ logged_in
           /\ user_role \in {"SuperAdmin", "Referee"}
           /\ ~athlete_logged_in)]_vars

\* A referee recorded an event.
C20_Witness ==
    /\ msg.kind = "success"
    /\ user_role = "Referee"
    /\ Len(records) = 1
    /\ records[1].timestamp = now

====
